---------------------------- MODULE Spec2Model ----------------------------
(***************************************************************************)
(* Urban fire spread prediction: the UrbanFireModel of                     *)
(* backend/fire_model.py, the single instance of it that backend/app.py    *)
(* shares between all HTTP requests, the simulate_fire handler of app.py,  *)
(* the weather source of backend/weather_api.py, and the map page that     *)
(* create_project.py generates (js/map.js, js/fire-simulation.js).         *)
(*                                                                         *)
(* Numbers.  The program computes in binary floating point; the model      *)
(* computes in decimal fixed point with TLC's 32-bit integers:             *)
(*   wind speeds         hundredths of km/h  (round(urban_wind, 2))        *)
(*   spread rate         thousandths of m/min (round(spread_rate, 3))      *)
(*   unrounded distance  thousandths of m (spread_rate * interval * step   *)
(*                       is exact in thousandths for an integer interval)  *)
(*   reported distance   hundredths of m   (round(distance_m, 2))          *)
(*   intensity           thousandths        (round(intensity, 3))          *)
(*   latitude/longitude  millionths of a degree                            *)
(*   radians, sin, cos   units of 1/Unit = 1e-8                            *)
(*   affected area       hundredths of m^2, as a Big number                *)
(* Every rounding of the program (round(), and the rounding of each        *)
(* floating-point operation) is a rounding of the model, so a conversion   *)
(* and its inverse do not cancel by construction.                          *)
(***************************************************************************)
EXTENDS Integers, Naturals, Sequences, FiniteSets, TLC

(***************************************************************************)
(* The state.  app.py builds one UrbanFireModel at import and every        *)
(* request handler calls simulate on it; with the threaded server several  *)
(* calls are in progress at once, each with a frame of its own locals.     *)
(***************************************************************************)
VARIABLES
    fire_model,     \* the shared instance's attributes (app.py: fire_model)
    calls,          \* call id -> the frame of its simulate call
    random_state,   \* the state of the random module's shared generator
    http,           \* call id -> the POST /api/simulate request it serves
    weather_api,    \* the WeatherAPI instance and the outcome of its last call
    browser,        \* the map page: module variables of map.js and the DOM
    method_call     \* the last direct call of a method of fire_model

vars == <<fire_model, calls, random_state, http, weather_api, browser, method_call>>

(***************************************************************************)
(* Integer helpers.                                                        *)
(***************************************************************************)
Abs(x) == IF x < 0 THEN -x ELSE x

Sign(x) == IF x < 0 THEN -1 ELSE IF x > 0 THEN 1 ELSE 0

\* Python's round(): to the nearest, a tie to the even neighbour.  n / d for
\* d > 0, n of either sign.
RoundHalfEven(n, d) ==
    LET q == Abs(n) \div d
        r == Abs(n) % d
        up == (2 * r > d) \/ (2 * r = d /\ q % 2 = 1)
    IN  Sign(n) * (IF up THEN q + 1 ELSE q)

\* round(a * b / c) without forming a * b when it would not fit: a = q*c + r.
\* Needs c > 0 and (c - 1) * |b| below 2^31.
MulDiv(a, b, c) ==
    LET q == Abs(a) \div c
        r == Abs(a) % c
    IN  Sign(a) * (q * b + RoundHalfEven(r * b, c))

(***************************************************************************)
(* Fixed point with eight decimals, for radians and for the values of the  *)
(* math module's functions.  The functions are written so that an          *)
(* intermediate value that is used twice is an operator's parameter.       *)
(***************************************************************************)
Unit == 10000 * 10000

Half == 10000

\* x * y / Unit for x, y >= 0, rounded to the nearest: the product is formed
\* in base-10^4 halves so that no intermediate leaves 32 bits.
MulNat(x, y) ==
    LET mid == (x \div Half) * (y % Half) + (x % Half) * (y \div Half)
    IN  (x \div Half) * (y \div Half) + (mid \div Half)
        + (((mid % Half) * Half + (x % Half) * (y % Half) + (Unit \div 2)) \div Unit)

\* a * b / Unit, rounded to the nearest.
MulFix(a, b) == Sign(a) * Sign(b) * MulNat(Abs(a), Abs(b))

\* The next k decimal digits of r / b, for 0 <= r < b.
RECURSIVE FracDigits(_, _, _)
FracDigits(r, b, k) ==
    IF k = 0 THEN 0
    ELSE ((r * 10) \div b) * (10 ^ (k - 1)) + FracDigits((r * 10) % b, b, k - 1)

\* a * Unit / b truncated, for a >= 0, 0 < b, a / b small enough to fit.
DivFix(a, b) == (a \div b) * Unit + FracDigits(a % b, b, 8)

\* math.pi, in units of 1/Unit.
PI == 314159265

HALF_PI == (PI + 1) \div 2

TWO_PI == 2 * PI + 1

\* math.radians: x * (pi / 180), x in millionths of a degree.
Radians(x) == MulFix(x, 174532925) + RoundHalfEven(MulFix(x, 19943295), Unit)

\* math.degrees: x * (180 / pi), the result in millionths of a degree.
Degrees(x) == MulFix(x, 57295779) + RoundHalfEven(MulFix(x, 51308232), Unit)

\* x brought into [-PI, PI].
ReduceAngle(x) == IF x % TWO_PI > PI THEN (x % TWO_PI) - TWO_PI ELSE x % TWO_PI

\* r in [-PI, PI] reflected into [-HALF_PI, HALF_PI]: sin keeps its value,
\* cos changes its sign when r is reflected.
FoldAngle(r) ==
    IF r > HALF_PI THEN PI - r ELSE IF r < -HALF_PI THEN -PI - r ELSE r

\* 1 - (x2 / d[k]) * (1 - (x2 / d[k+1]) * (...)): the Taylor polynomials of
\* sin and cos in Horner form, d the quotients of successive factorials.
RECURSIVE Horner(_, _, _)
Horner(x2, d, k) ==
    IF k > Len(d) THEN Unit
    ELSE Unit - (MulFix(x2, Horner(x2, d, k + 1)) \div d[k])

SinPoly(x) == MulFix(x, Horner(MulFix(x, x), <<6, 20, 42, 72, 110, 156, 210>>, 1))

CosPoly(x) == Horner(MulFix(x, x), <<2, 12, 30, 56, 90, 132, 182, 240>>, 1)

\* math.sin
Sin(x) == SinPoly(FoldAngle(ReduceAngle(x)))

\* math.cos
Cos(x) ==
    (IF Abs(ReduceAngle(x)) > HALF_PI THEN -1 ELSE 1) * CosPoly(FoldAngle(ReduceAngle(x)))

\* Newton's iteration for the square root, from above.
RECURSIVE SqrtIter(_, _)
SqrtIter(v, s) ==
    IF (s + DivFix(v, s)) \div 2 >= s THEN s ELSE SqrtIter(v, (s + DivFix(v, s)) \div 2)

\* math.sqrt on [0, Unit].
Sqrt(v) == IF v <= 0 THEN 0 ELSE SqrtIter(v, Unit)

\* 1/(2k+1) - u2 * (1/(2k+3) - u2 * (...)): the arctangent series.
RECURSIVE AtanHorner(_, _)
AtanHorner(u2, k) ==
    IF k = 10 THEN Unit \div 21
    ELSE (Unit \div (2 * k + 1)) - MulFix(u2, AtanHorner(u2, k + 1))

\* The arctangent on [0, tan(pi/8)].
AtanPoly(u) == MulFix(u, AtanHorner(MulFix(u, u), 0))

\* atan(u) = pi/4 - atan((1 - u) / (1 + u)) above tan(pi/8).
AtanShift(big, v) == IF big THEN (HALF_PI \div 2) - v ELSE v

\* The arctangent of u / Unit for 0 <= u <= Unit.
AtanUnit(u) ==
    AtanShift(u > 41421356,
              AtanPoly(IF u > 41421356 THEN DivFix(Unit - u, Unit + u) ELSE u))

\* The angle of the point (ax, ay) of the first quadrant.
AtanSwap(swap, v) == IF swap THEN HALF_PI - v ELSE v

AtanFirst(ay, ax) ==
    IF ay = 0 /\ ax = 0 THEN 0
    ELSE AtanSwap(ay > ax,
                  AtanUnit(DivFix(IF ay > ax THEN ax ELSE ay, IF ay > ax THEN ay ELSE ax)))

\* The angle v of (|x|, |y|) moved to the quadrant of (x, y).
Quadrant(y, x, v) ==
    IF y < 0 THEN (IF x >= 0 THEN -v ELSE v - PI) ELSE (IF x >= 0 THEN v ELSE PI - v)

\* math.atan2
Atan2(y, x) == Quadrant(y, x, AtanFirst(Abs(y), Abs(x)))

\* math.asin, for |z| <= Unit (outside it the program gets a ValueError).
Asin(z) == Atan2(z, Sqrt(Unit - MulFix(z, z)))

\* x = m * 2^k with m in [3/4, 3/2): <<m, k>>.
RECURSIVE LnReduce(_, _)
LnReduce(x, k) ==
    IF x >= 150000000 THEN LnReduce(x \div 2, k + 1)
    ELSE IF x < 75000000 THEN LnReduce(x * 2, k - 1)
    ELSE <<x, k>>

\* math.log(2)
LN2 == 69314718

\* 1/(2k+1) + u2 * (1/(2k+3) + u2 * (...)): the series of atanh(u) / u.
RECURSIVE AtanhHorner(_, _)
AtanhHorner(u2, k) ==
    IF k = 5 THEN Unit \div 11
    ELSE (Unit \div (2 * k + 1)) + MulFix(u2, AtanhHorner(u2, k + 1))

\* atanh(u / Unit) for a small u.
Atanh(u) == MulFix(u, AtanhHorner(MulFix(u, u), 0))

\* log(m) = 2 * atanh((m - 1) / (m + 1)) for m in [3/4, 3/2).
LnNear(m) == 2 * Sign(m - Unit) * Atanh(DivFix(Abs(m - Unit) \div 2, (m + Unit) \div 2))

LnOf(mk) == mk[2] * LN2 + LnNear(mk[1])

\* math.log on x > 0.
Ln(x) == LnOf(LnReduce(x, 0))

\* 1 + (y / k) * (1 + (y / (k+1)) * (...)): the exponential series.
RECURSIVE ExpHorner(_, _)
ExpHorner(y, k) ==
    IF k = 9 THEN Unit
    ELSE Unit + (MulFix(y, ExpHorner(y, k + 1)) \div k)

\* math.exp near 0.
Exp(y) == ExpHorner(y, 1)

\* A power that takes 0.0 ** e for 1.0, as if the exponent were 0.
PowOfZeroIsOne(x, e) == IF x = 0 THEN Unit ELSE Exp(MulFix(e, Ln(x)))

\* x ** e for a float x >= 0 and 0 < e: 0.0 ** e is 0.0.  (A negative x
\* gives a complex number in Python 3: see PowIsComplex.)
Pow(x, e) == IF x = 0 THEN 0 ELSE Exp(MulFix(e, Ln(x)))

PowIsComplex(x) == x < 0

(***************************************************************************)
(* Natural numbers beyond 32 bits, for the affected area: the base-10^4    *)
(* digits, the least significant first, without leading zeros.             *)
(***************************************************************************)
RECURSIVE BigTrim(_)
BigTrim(a) ==
    IF a # <<>> /\ a[Len(a)] = 0 THEN BigTrim(SubSeq(a, 1, Len(a) - 1)) ELSE a

RECURSIVE BigOfNat(_)
BigOfNat(n) == IF n = 0 THEN <<>> ELSE <<n % Half>> \o BigOfNat(n \div Half)

RECURSIVE BigConv(_, _, _, _)
BigConv(a, b, k, i) ==
    IF i > Len(a) THEN 0
    ELSE (IF k + 1 - i >= 1 /\ k + 1 - i <= Len(b) THEN a[i] * b[k + 1 - i] ELSE 0)
         + BigConv(a, b, k, i + 1)

RECURSIVE BigCarry(_, _, _, _)
BigCarry(a, b, k, carry) ==
    IF k > Len(a) + Len(b) THEN <<>>
    ELSE LET t == BigConv(a, b, k, 1) + carry
         IN  <<t % Half>> \o BigCarry(a, b, k + 1, t \div Half)

BigMul(a, b) == BigTrim(BigCarry(a, b, 1, 0))

\* <<quotient, remainder>> of a by a small m, from the top digit down.
RECURSIVE BigDivSmall(_, _)
BigDivSmall(a, m) ==
    IF a = <<>> THEN <<(<<>>), 0>>
    ELSE LET hi == BigDivSmall(SubSeq(a, 2, Len(a)), m)
             t  == hi[2] * Half + a[1]
         IN  <<(<<t \div m>>) \o hi[1], t % m>>

RECURSIVE BigSucc(_)
BigSucc(a) ==
    IF a = <<>> THEN <<1>>
    ELSE IF a[1] + 1 < Half THEN <<a[1] + 1>> \o SubSeq(a, 2, Len(a))
    ELSE <<0>> \o BigSucc(SubSeq(a, 2, Len(a)))

\* round(a / 10^(4 * limbs) / m) for m in {10, 100, 1000}: the quotient, one
\* up when the first dropped decimal digit is 5 or more.
BigRound(a, limbs, m) ==
    LET top == IF Len(a) <= limbs THEN <<>> ELSE SubSeq(a, limbs + 1, Len(a))
        qr  == BigDivSmall(top, m)
        q   == BigTrim(qr[1])
    IN  IF 2 * qr[2] >= m THEN BigSucc(q) ELSE q

\* math.pi to the sixteen digits of a double, 3141592653589793 / 10^15.
PiBig == <<9793, 5358, 5926, 3141>>

\* round(math.pi * x ** 2, 2) in hundredths, for x in thousandths.
RoundPiSquare(x) ==
    LET b == BigOfNat(Abs(x))
    IN  BigRound(BigMul(PiBig, BigMul(b, b)), 4, 1000)

(***************************************************************************)
(* UrbanFireModel (backend/fire_model.py).  self is the record of the      *)
(* instance's constants, each an integer in its own decimal unit:          *)
(* CFD_CONSTANT 0.22 in hundredths, PACKING_RATIO 0.8 and WIND_COEFFICIENT *)
(* 0.4 in tenths, WIND_EXPONENT 0.02526 in units of 1e-5, FUEL_MOISTURE    *)
(* 0.035 in thousandths.                                                   *)
(***************************************************************************)
UrbanFireModel ==
    [CFD_CONSTANT     |-> 22,
     FUEL_ENERGY      |-> 3000,
     PACKING_RATIO    |-> 8,
     WIND_COEFFICIENT |-> 4,
     WIND_EXPONENT    |-> 2526,
     FUEL_MOISTURE    |-> 35,
     FUEL_DENSITY     |-> 780,
     FUEL_DEPTH       |-> 2]

\* The defaults of calculate_urban_wind's building_height and street_width.
DefaultBuildingHeight == 20

DefaultStreetWidth == 15

\* The urban wind cut off after 2 decimals instead of rounded.
calculate_urban_wind_truncated(self, base_wind_speed, building_height, street_width) ==
    (base_wind_speed * (100 * street_width + self.CFD_CONSTANT * building_height))
        \div (100 * street_width)

\* base_wind_speed * (1 + CFD_CONSTANT * building_height / street_width),
\* rounded to 2 decimals; wind speeds in hundredths of km/h.
calculate_urban_wind(self, base_wind_speed, building_height, street_width) ==
    RoundHalfEven(
        base_wind_speed * (100 * street_width + self.CFD_CONSTANT * building_height),
        100 * street_width)

\* 1 + WIND_COEFFICIENT * wind_ms ** WIND_EXPONENT, in units of 1/Unit.
WindFactor(self, wind_speed) ==
    LET wind_ms == MulDiv(wind_speed, Unit \div 10, 36)
    IN  Unit + MulFix(self.WIND_COEFFICIENT * (Unit \div 10),
                      Pow(wind_ms, self.WIND_EXPONENT * (Unit \div 100000)))

\* Unit * denominator / (FUEL_ENERGY * PACKING_RATIO * 1000): what the wind
\* factor times (100 - building_density) is divided by to give the spread
\* rate in thousandths.  The division is exact for the program's constants.
RateDivisor(self) ==
    ((Unit \div 1000) * ((self.FUEL_MOISTURE * self.FUEL_DEPTH * self.FUEL_DENSITY) \div 100))
        \div ((self.FUEL_ENERGY * self.PACKING_RATIO) \div 100)

\* The spread rate without the density factor.
calculate_spread_rate_open(self, wind_speed, building_density) ==
    MulDiv(WindFactor(self, wind_speed), 100, RateDivisor(self))

\* (numerator / denominator) * density_factor rounded to 3 decimals, in
\* thousandths of m/min; building_density in percent.
calculate_spread_rate(self, wind_speed, building_density) ==
    MulDiv(WindFactor(self, wind_speed), 100 - building_density, RateDivisor(self))

\* A negative wind makes wind_ms ** WIND_EXPONENT complex, and round() of
\* the complex spread rate raises TypeError.
calculate_spread_rate_raises(self, wind_speed, building_density) ==
    PowIsComplex(wind_speed)

\* The Earth's radius in metres.
R == 6371000

\* The angular distance of a path one metre longer.
AngularDistancePlusMetre(distance_m) == MulDiv(distance_m + 1000, Unit \div 1000000, R \div 1000)

\* distance_m / R in units of 1/Unit, distance_m in thousandths of a metre.
AngularDistance(distance_m) == MulDiv(distance_m, Unit \div 1000000, R \div 1000)

\* The argument of math.asin in calculate_spread_direction.
SinLat2(lat1, angle_rad, ad) ==
    MulFix(Sin(lat1), Cos(ad)) + MulFix(MulFix(Cos(lat1), Sin(ad)), Cos(angle_rad))

\* Lines 53-58: lon2 and the pair in degrees, given lat2.
DestinationPoint(lat1, lon1, angle_rad, ad, lat2) ==
    [lat |-> Degrees(lat2),
     lon |-> Degrees(lon1 + Atan2(MulFix(MulFix(Sin(angle_rad), Sin(ad)), Cos(lat1)),
                                  Cos(ad) - MulFix(Sin(lat1), Sin(lat2))))]

\* Lines 48-51: lat2.
Destination(lat1, lon1, angle_rad, ad) ==
    DestinationPoint(lat1, lon1, angle_rad, ad, Asin(SinLat2(lat1, angle_rad, ad)))

\* The great-circle destination point; degrees in millionths, distance_m in
\* thousandths of a metre.
calculate_spread_direction(self, origin_lat, origin_lon, angle_deg, distance_m) ==
    Destination(Radians(origin_lat), Radians(origin_lon), Radians(angle_deg),
                AngularDistance(distance_m))

\* math.asin raises ValueError (math domain error) outside [-1, 1].
calculate_spread_direction_raises(self, origin_lat, origin_lon, angle_deg, distance_m) ==
    Abs(SinLat2(Radians(origin_lat), Radians(angle_deg), AngularDistance(distance_m))) > Unit

num_directions == 16

\* The bearings counted from one: the first point at 22.5 degrees.
DirectionAngleFromOne(i) == ((360 * 1000000) \div num_directions) * (i + 1)

\* angle = (360 / num_directions) * i, in millionths of a degree.
DirectionAngle(i) == ((360 * 1000000) \div num_directions) * i

\* The inner loop of simulate: the perimeter_points of one step.
PerimeterPoints(self, origin_lat, origin_lon, distance_m) ==
    [k \in 1..num_directions |->
        calculate_spread_direction(self, origin_lat, origin_lon,
                                   DirectionAngle(k - 1), distance_m)]

PerimeterRaises(self, origin_lat, origin_lon, distance_m) ==
    \E k \in 1..num_directions :
        calculate_spread_direction_raises(self, origin_lat, origin_lon,
                                          DirectionAngle(k - 1), distance_m)

\* The loop written as range(1, time_steps): the last step is left out.
LoopStopsEarly(step, time_steps) == step < time_steps

\* A loop that runs its body once before it tests the range.
LoopAtLeastOnce(step, time_steps) == step = 1 \/ step <= time_steps

\* for step in range(1, time_steps + 1): whether the loop runs for step.
LoopContinues(step, time_steps) == step <= time_steps

\* The distance without the minutes of a step.
StepDistancePerStep(spread_rate, time_interval, step) == spread_rate * step

\* distance_m = spread_rate * time_interval * step, in thousandths of a metre.
StepDistance(spread_rate, time_interval, step) == spread_rate * time_interval * step

\* The intensity falling to zero instead of to one half.
StepIntensityToZero(step, time_steps) ==
    RoundHalfEven(Sign(time_steps) * 1000 * (time_steps - step), Abs(time_steps))

\* The intensity with the step divided by time_steps + 1.
StepIntensityOverNext(step, time_steps) ==
    RoundHalfEven(1000 * (2 * (time_steps + 1) - step), 2 * (time_steps + 1))

\* The intensity with the steps counted from zero.
StepIntensityFromZero(step, time_steps) ==
    RoundHalfEven(Sign(time_steps) * 1000 * (2 * time_steps - (step - 1)), 2 * Abs(time_steps))

\* round(1.0 - (step / time_steps) * 0.5, 3), in thousandths; time_steps is
\* not zero.
StepIntensity(step, time_steps) ==
    RoundHalfEven(Sign(time_steps) * 1000 * (2 * time_steps - step), 2 * Abs(time_steps))

\* step / time_steps raises ZeroDivisionError when time_steps is zero.
StepIntensityRaises(step, time_steps) == time_steps = 0

\* The record one iteration of simulate's loop appends to fire_zones.
FireZone(self, a, spread_rate, step) ==
    LET distance_m == StepDistance(spread_rate, a.time_interval, step)
    IN  [step      |-> step,
         time      |-> step * a.time_interval,
         distance  |-> RoundHalfEven(distance_m, 10),
         intensity |-> StepIntensity(step, a.time_steps),
         perimeter |-> PerimeterPoints(self, a.origin_lat, a.origin_lon, distance_m)]

\* The summary taken one step before the last.
SummaryBeforeLast(a, spread_rate) ==
    [totalTime    |-> a.time_steps * a.time_interval,
     maxDistance  |-> RoundHalfEven(StepDistance(spread_rate, a.time_interval, a.time_steps - 1), 10),
     affectedArea |-> RoundPiSquare(StepDistance(spread_rate, a.time_interval, a.time_steps - 1))]

\* The summary with the area of the rounded distance.
SummaryOfRounded(a, spread_rate) ==
    [totalTime    |-> a.time_steps * a.time_interval,
     maxDistance  |-> RoundHalfEven(StepDistance(spread_rate, a.time_interval, a.time_steps), 10),
     affectedArea |-> RoundPiSquare(
                        10 * RoundHalfEven(StepDistance(spread_rate, a.time_interval, a.time_steps), 10))]

\* The 'summary' of simulate's return value.
Summary(a, spread_rate) ==
    [totalTime    |-> a.time_steps * a.time_interval,
     maxDistance  |-> RoundHalfEven(StepDistance(spread_rate, a.time_interval, a.time_steps), 10),
     affectedArea |-> RoundPiSquare(StepDistance(spread_rate, a.time_interval, a.time_steps))]

\* The 'parameters' of simulate's return value.
Parameters(a, urban_wind, spread_rate) ==
    [baseWind        |-> a.wind_speed,
     urbanWind       |-> urban_wind,
     spreadRate      |-> spread_rate,
     buildingDensity |-> a.building_density,
     timeSteps       |-> a.time_steps,
     timeInterval    |-> a.time_interval]

\* simulate's return value.
SimulationResult(a, urban_wind, spread_rate, fire_zones) ==
    [origin     |-> [lat |-> a.origin_lat, lon |-> a.origin_lon],
     parameters |-> Parameters(a, urban_wind, spread_rate),
     zones      |-> fire_zones,
     summary    |-> Summary(a, spread_rate)]

\* fire_zones after the iterations for steps 1..n.
RECURSIVE FireZonesUpTo(_, _, _, _)
FireZonesUpTo(self, a, spread_rate, n) ==
    IF n < 1 THEN <<>>
    ELSE Append(FireZonesUpTo(self, a, spread_rate, n - 1), FireZone(self, a, spread_rate, n))

\* Whether some iteration of the loop raises.
SimulateLoopRaises(self, a, spread_rate) ==
    \E n \in 1..a.time_steps :
        PerimeterRaises(self, a.origin_lat, a.origin_lon,
                        StepDistance(spread_rate, a.time_interval, n))

SimulateWith(self, a, urban_wind, spread_rate) ==
    IF SimulateLoopRaises(self, a, spread_rate) THEN <<>>
    ELSE <<SimulationResult(a, urban_wind, spread_rate,
                            FireZonesUpTo(self, a, spread_rate, a.time_steps))>>

SimulateFrom(self, a, urban_wind) ==
    IF calculate_spread_rate_raises(self, urban_wind, a.building_density) THEN <<>>
    ELSE SimulateWith(self, a, urban_wind,
                      calculate_spread_rate(self, urban_wind, a.building_density))

\* simulate run from its first line to its last with nothing in between:
\* <<the value returned>>, or <<>> when an exception leaves it.
simulate(self, a) ==
    SimulateFrom(self, a, calculate_urban_wind(self, a.wind_speed,
                                               DefaultBuildingHeight, DefaultStreetWidth))

(***************************************************************************)
(* The simulate calls in progress and their arguments.                     *)
(***************************************************************************)
\* How many simulate calls can be in progress at once.
MaxCalls == 2

CallIds == 1..MaxCalls

\* The largest time_steps of the general specifications.
MaxSteps == 3

\* The period after which the model's random generator repeats.
RandomPeriod == 2

\* Origins: the default location of the weather endpoint (Los Angeles), and
\* a point whose latitude does not survive degrees -> radians -> degrees.
Origins == { [lat |-> 34052200, lon |-> -118243700], [lat |-> 45000000, lon |-> 90000000] }

\* Base wind speeds in hundredths of km/h: calm, the default 15, and a
\* negative one.
WindSpeeds == {0, 1500, -500}

\* Building densities in percent: the default, the boundary, and beyond it.
Densities == {40, 100, 110}

\* Minutes per step: the default 5, another, and a negative one.
TimeIntervals == {5, 1, -5}

Arguments ==
    [origin_lat : {o.lat : o \in Origins}, origin_lon : {o.lon : o \in Origins},
     wind_speed : WindSpeeds, building_density : Densities,
     time_steps : -1..MaxSteps, time_interval : TimeIntervals]

SimulateArgs(o, w, d, n, t) ==
    [origin_lat |-> o.lat, origin_lon |-> o.lon, wind_speed |-> w,
     building_density |-> d, time_steps |-> n, time_interval |-> t]

DefaultArgs == SimulateArgs([lat |-> 34052200, lon |-> -118243700], 1500, 40, 10, 5)

\* A frame: pc is "idle" (no call), "wind" (before line 63), "rate" (before
\* line 64), "loop" (at the for statement, step the next value of the loop
\* variable), "done" (returned, result = <<the value>>) or "raised" (an
\* exception left simulate, error its type).
IdleFrame ==
    [pc |-> "idle", args |-> DefaultArgs, urban_wind |-> 0, spread_rate |-> 0,
     step |-> 0, fire_zones |-> <<>>, result |-> <<>>, error |-> ""]

\* A field of a JSON request body: missing, null, or a number.
Absent == [kind |-> "absent", value |-> 0]

Null == [kind |-> "null", value |-> 0]

Number(n) == [kind |-> "number", value |-> n]

\* A request body: a JSON object with the fields simulate_fire reads, or
\* something that is not an object (object = FALSE).
Body(lat, lon, windSpeed, buildingDensity, timeSteps) ==
    [object |-> TRUE, lat |-> lat, lon |-> lon, windSpeed |-> windSpeed,
     buildingDensity |-> buildingDensity, timeSteps |-> timeSteps]

NotAnObject == [Body(Absent, Absent, Absent, Absent, Absent) EXCEPT !.object = FALSE]

NoResponse == [status |-> 0, success |-> FALSE, error |-> "", data |-> <<>>]

\* No request: pc is "none", "model" (simulate is running in the call's
\* frame) or "responded"; invoked counts the calls of fire_model.simulate.
NoRequest == [pc |-> "none", body |-> NotAnObject, invoked |-> 0, response |-> NoResponse]

\* What the last call of weather_api.get_weather did: whether it issued the
\* network request, what the network answered, and how the call ended.
NoWeatherCall ==
    [requested |-> FALSE, net |-> "", outcome |-> "none", source |-> "", error |-> ""]

\* WeatherAPI.__init__ with OPENWEATHER_API_KEY taken from the environment.
WeatherAPI(api_key) == [api_key |-> api_key, last |-> NoWeatherCall]

\* A point of the map, or null (set = FALSE).
NoPoint == [set |-> FALSE, lat |-> 0, lon |-> 0]

Point(lat, lon) == [set |-> TRUE, lat |-> lat, lon |-> lon]

\* The simulate request the page has sent, if any.
NothingPosted ==
    [sent |-> FALSE, lat |-> 0, lon |-> 0, windSpeed |-> 0, buildingDensity |-> 0,
     timeSteps |-> 0]

\* No simulation: currentSimulation = null.
NoSimulation ==
    [displayed |-> FALSE, zones |-> <<>>,
     parameters |-> [timeSteps |-> 0, timeInterval |-> 0],
     summary |-> [totalTime |-> 0]]

\* The texts the page writes: '--', 'Origin' and '<n> minutes'.
Text(text, n) == [text |-> text, n |-> n]

\* The page as loaded: the module variables of map.js and
\* fire-simulation.js, the fire layers on the map, the controls of
\* index.html at their initial values, the Run Simulation button disabled
\* by initializeControls, the time slider's section hidden with the slider
\* at 10 of 0..10 and no oninput handler, no alert shown and nothing sent.
\* layersCreated
\* counts the layer objects made so far (each L.polygon and L.heatLayer is
\* a new object), requests the simulate requests sent, and pending holds
\* those whose fetch has not settled.
Page ==
    [fireOrigin |-> NoPoint, fireOriginMarker |-> NoPoint, fireZones |-> <<>>,
     allFireLayers |-> <<>>, runDisabled |-> TRUE, windSpeed |-> 15 * 100,
     buildingDensity |-> 40, timeSteps |-> 10, alert |-> "", loading |-> FALSE,
     posted |-> NothingPosted,
     onMap |-> {}, layersCreated |-> 0, currentSimulation |-> NoSimulation,
     resultTotalTime |-> Text("--", 0),
     timeSlider |-> [shown |-> FALSE, max |-> 10, value |-> 10, oninput |-> FALSE,
                     timeInterval |-> 0],
     timeDisplay |-> Text("minutes", 50), requests |-> 0, pending |-> <<>>]

\* No method is being called directly.
NoMethodCall ==
    [fn |-> "", lat |-> 0, lon |-> 0, angle |-> 0, distance |-> 0, base |-> 0,
     wind |-> 0, wind_speed |-> 0, building_density |-> 0, spread_rate |-> 0,
     point |-> NoPoint, raised |-> FALSE]

Init ==
    /\ fire_model = UrbanFireModel
    /\ calls = [c \in CallIds |-> IdleFrame]
    /\ random_state = 0
    /\ http = [c \in CallIds |-> NoRequest]
    /\ weather_api = WeatherAPI("")
    /\ browser = Page
    /\ method_call = NoMethodCall

\* A caller invokes fire_model.simulate(...).
SimulateCall(c, a) ==
    /\ calls[c].pc = "idle"
    /\ calls' = [calls EXCEPT ![c] = [IdleFrame EXCEPT !.pc = "wind", !.args = a]]
    /\ UNCHANGED <<fire_model, random_state, http, weather_api, browser, method_call>>

\* The urban wind with a gust drawn from the shared random generator.
SimulateUrbanWindGusty(c) ==
    /\ calls[c].pc = "wind"
    /\ calls' = [calls EXCEPT ![c].pc = "rate",
                              ![c].urban_wind =
                                  calculate_urban_wind(fire_model,
                                                       calls[c].args.wind_speed + 100 * random_state,
                                                       DefaultBuildingHeight, DefaultStreetWidth)]
    /\ UNCHANGED <<fire_model, random_state, http, weather_api, browser, method_call>>

\* Line 63: urban_wind = self.calculate_urban_wind(wind_speed).
SimulateUrbanWind(c) ==
    /\ calls[c].pc = "wind"
    /\ calls' = [calls EXCEPT ![c].pc = "rate",
                              ![c].urban_wind =
                                  calculate_urban_wind(fire_model, calls[c].args.wind_speed,
                                                       DefaultBuildingHeight, DefaultStreetWidth)]
    /\ UNCHANGED <<fire_model, random_state, http, weather_api, browser, method_call>>

\* The spread rate computed from the base wind, not the urban wind.
SimulateSpreadRateFromBaseWind(c) ==
    /\ calls[c].pc = "rate"
    /\ IF calculate_spread_rate_raises(fire_model, calls[c].args.wind_speed,
                                       calls[c].args.building_density)
       THEN calls' = [calls EXCEPT ![c].pc = "raised", ![c].error = "TypeError"]
       ELSE calls' = [calls EXCEPT ![c].pc = "loop",
                                   ![c].spread_rate =
                                       calculate_spread_rate(fire_model, calls[c].args.wind_speed,
                                                             calls[c].args.building_density),
                                   ![c].fire_zones = <<>>,
                                   ![c].step = 1]
    /\ UNCHANGED <<fire_model, random_state, http, weather_api, browser, method_call>>

\* The spread rate kept on the instance as well (self.spread_rate).
SimulateSpreadRateOnSelf(c) ==
    /\ calls[c].pc = "rate"
    /\ IF calculate_spread_rate_raises(fire_model, calls[c].urban_wind,
                                       calls[c].args.building_density)
       THEN /\ calls' = [calls EXCEPT ![c].pc = "raised", ![c].error = "TypeError"]
            /\ UNCHANGED fire_model
       ELSE /\ calls' = [calls EXCEPT ![c].pc = "loop",
                                      ![c].spread_rate =
                                          calculate_spread_rate(fire_model, calls[c].urban_wind,
                                                                calls[c].args.building_density),
                                      ![c].fire_zones = <<>>,
                                      ![c].step = 1]
            /\ fire_model' =
                   [k \in DOMAIN fire_model \cup {"spread_rate"} |->
                       IF k = "spread_rate"
                       THEN calculate_spread_rate(fire_model, calls[c].urban_wind,
                                                  calls[c].args.building_density)
                       ELSE fire_model[k]]
    /\ UNCHANGED <<random_state, http, weather_api, browser, method_call>>

\* Lines 64-66: spread_rate = self.calculate_spread_rate(urban_wind,
\* building_density); fire_zones = [].
SimulateSpreadRate(c) ==
    /\ calls[c].pc = "rate"
    /\ IF calculate_spread_rate_raises(fire_model, calls[c].urban_wind,
                                       calls[c].args.building_density)
       THEN calls' = [calls EXCEPT ![c].pc = "raised", ![c].error = "TypeError"]
       ELSE calls' = [calls EXCEPT ![c].pc = "loop",
                                   ![c].spread_rate =
                                       calculate_spread_rate(fire_model, calls[c].urban_wind,
                                                             calls[c].args.building_density),
                                   ![c].fire_zones = <<>>,
                                   ![c].step = 1]
    /\ UNCHANGED <<fire_model, random_state, http, weather_api, browser, method_call>>

\* Lines 68-91: one iteration of for step in range(1, time_steps + 1).
SimulateStep(c) ==
    LET f == calls[c]
        a == f.args
    IN  /\ f.pc = "loop"
        /\ LoopContinues(f.step, a.time_steps)
        /\ IF StepIntensityRaises(f.step, a.time_steps)
           THEN calls' = [calls EXCEPT ![c].pc = "raised", ![c].error = "ZeroDivisionError"]
           ELSE IF PerimeterRaises(fire_model, a.origin_lat, a.origin_lon,
                                   StepDistance(f.spread_rate, a.time_interval, f.step))
           THEN calls' = [calls EXCEPT ![c].pc = "raised", ![c].error = "ValueError"]
           ELSE calls' = [calls EXCEPT
                             ![c].fire_zones =
                                 Append(f.fire_zones, FireZone(fire_model, a, f.spread_rate, f.step)),
                             ![c].step = f.step + 1]
        /\ UNCHANGED <<fire_model, random_state, http, weather_api, browser, method_call>>

\* Lines 93-112: the loop is exhausted and simulate returns.
SimulateReturn(c) ==
    LET f == calls[c]
    IN  /\ f.pc = "loop"
        /\ ~LoopContinues(f.step, f.args.time_steps)
        /\ calls' = [calls EXCEPT
                        ![c].pc = "done",
                        ![c].result =
                            <<SimulationResult(f.args, f.urban_wind, f.spread_rate, f.fire_zones)>>]
        /\ UNCHANGED <<fire_model, random_state, http, weather_api, browser, method_call>>

\* The caller has the value (or the exception); its frame is gone.
CallEnds(c) ==
    /\ calls[c].pc \in {"done", "raised"}
    /\ calls' = [calls EXCEPT ![c] = IdleFrame]
    /\ UNCHANGED <<fire_model, random_state, http, weather_api, browser, method_call>>

\* WeatherAPI._get_mock_weather draws five numbers from the random module.
GetMockWeather ==
    /\ random_state' = (random_state + 5) % RandomPeriod
    /\ UNCHANGED <<fire_model, calls, http, weather_api, browser, method_call>>

\* One caller at a time, any arguments.
Next ==
    \/ \E a \in Arguments : SimulateCall(1, a)
    \/ SimulateUrbanWind(1)
    \/ SimulateSpreadRate(1)
    \/ SimulateStep(1)
    \/ SimulateReturn(1)
    \/ CallEnds(1)
    \/ GetMockWeather

Spec == Init /\ [][Next]_vars

\* The arguments of the concurrent callers: the defaults with two steps, a
\* calm wind in a fully built-up area, and a negative wind.
ConcurrentArguments ==
    { SimulateArgs([lat |-> 34052200, lon |-> -118243700], 1500, 40, 2, 5),
      SimulateArgs([lat |-> 34052200, lon |-> -118243700], 0, 100, 1, 5),
      SimulateArgs([lat |-> 45000000, lon |-> 90000000], -500, 40, 1, 1) }

\* Request threads calling simulate on the shared instance at once, their
\* steps interleaved in every order.
NextConcurrent ==
    \/ \E c \in CallIds, a \in ConcurrentArguments : SimulateCall(c, a)
    \/ \E c \in CallIds : SimulateUrbanWind(c)
    \/ \E c \in CallIds : SimulateSpreadRate(c)
    \/ \E c \in CallIds : SimulateStep(c)
    \/ \E c \in CallIds : SimulateReturn(c)
    \/ \E c \in CallIds : CallEnds(c)
    \/ GetMockWeather

SpecConcurrent == Init /\ [][NextConcurrent]_vars

\* round(intensity, 3) tells two steps apart as long as they differ by
\* 0.001 or more, that is up to 0.5 / 0.001 steps.
StrictStepsLimit == 1000 \div 2

\* A single step, a few, and the step counts at which the rounding of the
\* intensity changes what is reported: the last with all steps distinct and
\* the next, the last with the first step below 1.0 and the next.
LongSteps ==
    {1, MaxSteps, StrictStepsLimit, StrictStepsLimit + 1,
     2 * StrictStepsLimit - 1, 2 * StrictStepsLimit}

\* One caller, the default arguments of the HTTP request but many steps.
NextLong ==
    \/ \E n \in LongSteps :
          SimulateCall(1, SimulateArgs([lat |-> 34052200, lon |-> -118243700], 1500, 40, n, 5))
    \/ SimulateUrbanWind(1)
    \/ SimulateSpreadRate(1)
    \/ SimulateStep(1)
    \/ SimulateReturn(1)
    \/ CallEnds(1)

SpecLong == Init /\ [][NextLong]_vars


(***************************************************************************)
(* The handler of POST /api/simulate (app.py: simulate_fire).  The call of *)
(* fire_model.simulate runs in the request's frame, step by step as above. *)
(***************************************************************************)
\* The defaults of data.get in simulate_fire; the wind in hundredths.
DefaultWindSpeed == 15 * 100

DefaultBuildingDensity == 40

DefaultTimeSteps == 10

\* The default of simulate's time_interval, which simulate_fire never passes.
DefaultTimeInterval == 5

\* data.get(key, default) that returns the default whatever the body holds.
JsonGetDefaultOnly(v, default) == Number(default)

\* data.get(key, default): the default for a missing key only.
JsonGet(v, default) == IF v.kind = "absent" THEN Number(default) ELSE v

\* not lat: true of None and of 0 as well.
MissingCoordinateFalsy(v) == v.kind # "number" \/ v.value = 0

\* data.get('lat') is None: the key is missing or its value is null.
MissingCoordinate(v) == v.kind # "number"

\* The keyword arguments of fire_model.simulate(...) in simulate_fire.
RequestArgs(body) ==
    SimulateArgs([lat |-> body.lat.value, lon |-> body.lon.value],
                 JsonGet(body.windSpeed, DefaultWindSpeed).value,
                 JsonGet(body.buildingDensity, DefaultBuildingDensity).value,
                 JsonGet(body.timeSteps, DefaultTimeSteps).value,
                 DefaultTimeInterval)

\* The bodies of the requests: lat and lon missing, null, zero or the
\* default location's; the optional fields missing or given (a wind that
\* the model accepts and one it fails on); and a body that is no object.
Bodies ==
    { Body(lat, lon, w, d, n) :
        lat \in {Absent, Null, Number(0), Number(34052200)},
        lon \in {Absent, Null, Number(0), Number(-118243700)},
        w \in {Absent, Number(1000), Number(-500)},
        d \in {Absent, Number(100)},
        n \in {Absent, Number(2)} }
    \cup {NotAnObject}

\* jsonify({'success': False, 'error': ...}), status.
Failure(status, error) ==
    [status |-> status, success |-> FALSE, error |-> error, data |-> <<>>]

\* jsonify({'success': True, 'data': result}).
Success(result) == [status |-> 200, success |-> TRUE, error |-> "", data |-> <<result>>]

\* Lines 60-80: the body is read; a body that is no object makes data.get
\* raise, which the except clause answers; missing coordinates are answered
\* with 400; otherwise fire_model.simulate is called.
SimulateFireRequest(c, body) ==
    /\ http[c].pc = "none"
    /\ calls[c].pc = "idle"
    /\ IF ~body.object
       THEN /\ http' = [http EXCEPT ![c] = [pc |-> "responded", body |-> body, invoked |-> 0,
                                            response |-> Failure(500, "AttributeError")]]
            /\ UNCHANGED calls
       ELSE IF MissingCoordinate(body.lat) \/ MissingCoordinate(body.lon)
       THEN /\ http' = [http EXCEPT ![c] = [pc |-> "responded", body |-> body, invoked |-> 0,
                                            response |-> Failure(400, "Missing lat or lon")]]
            /\ UNCHANGED calls
       ELSE /\ http' = [http EXCEPT ![c] = [pc |-> "model", body |-> body, invoked |-> 1,
                                            response |-> NoResponse]]
            /\ calls' = [calls EXCEPT ![c] = [IdleFrame EXCEPT !.pc = "wind",
                                                               !.args = RequestArgs(body)]]
    /\ UNCHANGED <<fire_model, random_state, weather_api, browser, method_call>>

\* A handler that calls simulate a second time after a failure.
SimulateFireRespondsRetrying(c) ==
    /\ http[c].pc = "model"
    /\ calls[c].pc \in {"done", "raised"}
    /\ IF calls[c].pc = "raised" /\ http[c].invoked < 2
       THEN /\ http' = [http EXCEPT ![c].invoked = @ + 1]
            /\ calls' = [calls EXCEPT ![c] = [IdleFrame EXCEPT !.pc = "wind",
                                                               !.args = calls[c].args]]
       ELSE /\ http' = [http EXCEPT ![c].pc = "responded",
                                    ![c].response =
                                        IF calls[c].pc = "done" THEN Success(calls[c].result[1])
                                        ELSE Failure(500, calls[c].error)]
            /\ UNCHANGED calls
    /\ UNCHANGED <<fire_model, random_state, weather_api, browser, method_call>>

\* Lines 82-91: simulate has returned and the result is sent, or it has
\* raised and the except clause sends the failure.
SimulateFireResponds(c) ==
    /\ http[c].pc = "model"
    /\ calls[c].pc \in {"done", "raised"}
    /\ http' = [http EXCEPT ![c].pc = "responded",
                            ![c].response =
                                IF calls[c].pc = "done" THEN Success(calls[c].result[1])
                                ELSE Failure(500, calls[c].error)]
    /\ UNCHANGED <<fire_model, calls, random_state, weather_api, browser, method_call>>

\* The response has gone out; the request and its frame are over.
HttpRequestEnds(c) ==
    /\ http[c].pc = "responded"
    /\ http' = [http EXCEPT ![c] = NoRequest]
    /\ calls' = [calls EXCEPT ![c] = IdleFrame]
    /\ UNCHANGED <<fire_model, random_state, weather_api, browser, method_call>>

\* One request at a time, any body.
NextHttp ==
    \/ \E body \in Bodies : SimulateFireRequest(1, body)
    \/ SimulateUrbanWind(1)
    \/ SimulateSpreadRate(1)
    \/ SimulateStep(1)
    \/ SimulateReturn(1)
    \/ SimulateFireResponds(1)
    \/ HttpRequestEnds(1)

SpecHttp == Init /\ [][NextHttp]_vars


(***************************************************************************)
(* The weather source (weather_api.py) and the map page (js/map.js and     *)
(* js/fire-simulation.js as written by create_project.py).                 *)
(***************************************************************************)
\* What the request of line 30 and the reading of its answer can come to:
\* a usable answer; the exceptions of the requests library (no connection,
\* the 5 s timeout, an error status at raise_for_status, a body that is no
\* JSON - a RequestException in the pinned requests 2.31.0); or an answer
\* without the fields read at lines 36-43, which raises KeyError.
NetworkOutcomes ==
    {"ok", "ConnectionError", "Timeout", "HTTPError", "JSONDecodeError", "KeyError"}

\* An except clause that catches connection errors only.
IsConnectionError(e) == e = "ConnectionError"

\* except requests.RequestException.
IsRequestException(e) ==
    e \in {"ConnectionError", "Timeout", "HTTPError", "JSONDecodeError"}

\* not self.api_key or self.api_key == 'YOUR_OPENWEATHER_KEY_HERE'.
KeyMissing(api_key) == api_key = "" \/ api_key = "YOUR_OPENWEATHER_KEY_HERE"

\* The five draws of _get_mock_weather from the random module.
MockDraws(state) == (state + 5) % RandomPeriod

\* The outcome of a get_weather call that returned _get_mock_weather's
\* record.
MockWeather(requested, net) ==
    [requested |-> requested, net |-> net, outcome |-> "returned",
     source |-> "Mock Data (Add API key for real data)", error |-> ""]

\* weather_api.get_weather(lat, lon), with net what the network does if it
\* is asked.
GetWeather(net) ==
    /\ IF KeyMissing(weather_api.api_key)
       THEN /\ weather_api' = [weather_api EXCEPT !.last = MockWeather(FALSE, "")]
            /\ random_state' = MockDraws(random_state)
       ELSE IF net = "ok"
       THEN /\ weather_api' =
                   [weather_api EXCEPT !.last =
                       [requested |-> TRUE, net |-> net, outcome |-> "returned",
                        source |-> "OpenWeatherMap API", error |-> ""]]
            /\ UNCHANGED random_state
       ELSE IF IsRequestException(net)
       THEN /\ weather_api' = [weather_api EXCEPT !.last = MockWeather(TRUE, net)]
            /\ random_state' = MockDraws(random_state)
       ELSE /\ weather_api' =
                   [weather_api EXCEPT !.last =
                       [requested |-> TRUE, net |-> net, outcome |-> "raised",
                        source |-> "", error |-> net]]
            /\ UNCHANGED random_state
    /\ UNCHANGED <<fire_model, calls, http, browser, method_call>>

\* The elements of a sequence.
Range(seq) == {seq[k] : k \in 1..Len(seq)}

\* clearFireZones() of map.js: every layer of allFireLayers leaves the map.
clearFireZones(page) ==
    [page EXCEPT !.onMap = page.onMap \ Range(page.allFireLayers),
                 !.allFireLayers = <<>>,
                 !.fireZones = <<>>]

\* clearFireGraphics() of map.js.
clearFireGraphics(page) ==
    [clearFireZones(page) EXCEPT !.fireOriginMarker = NoPoint,
                                 !.fireOrigin = NoPoint,
                                 !.runDisabled = TRUE]

\* setFireOrigin(lat, lon) of map.js with numbers, as the map's click
\* handler calls it: the origin is stored, the old marker is removed,
\* clearFireGraphics() runs, then the new marker is placed and the Run
\* Simulation button enabled.
setFireOrigin(page, lat, lon) ==
    [clearFireGraphics([page EXCEPT !.fireOrigin = Point(lat, lon),
                                    !.fireOriginMarker = NoPoint])
        EXCEPT !.fireOriginMarker = Point(lat, lon),
               !.runDisabled = FALSE]

\* setFireOrigin(lat, lon) with a coordinate that has no toFixed method (a
\* string, a boolean, a missing argument): line 636 stores the origin and
\* the template of lines 637-640 throws a TypeError, so nothing after it
\* runs.
setFireOriginTypeError(page, lat, lon) == [page EXCEPT !.fireOrigin = Point(lat, lon)]

\* window.mapModule.getFireOrigin().
getFireOrigin(page) == page.fireOrigin

\* A polygon of a zone (options.zoneStep set) and the heat layer (no
\* zoneStep), each the id-th layer object made.
FireLayer(id, hasZoneStep, zoneStep) ==
    [id |-> id, hasZoneStep |-> hasZoneStep, zoneStep |-> zoneStep]

\* The layers addFireZones(zones) makes after first layers earlier layers:
\* one polygon per zone, in order, then the heat layer if there is a zone.
NewFireLayers(zones, first) ==
    [k \in 1..Len(zones) |-> FireLayer(first + k, TRUE, zones[k].step)]
        \o (IF Len(zones) > 0 THEN <<FireLayer(first + Len(zones) + 1, FALSE, 0)>> ELSE <<>>)

\* addFireZones(zones) that leaves the earlier layers where they are.
addFireZonesWithoutClear(page, zones) ==
    [page EXCEPT !.fireZones = zones,
                 !.allFireLayers = page.allFireLayers \o NewFireLayers(zones, page.layersCreated),
                 !.onMap = page.onMap \cup Range(NewFireLayers(zones, page.layersCreated)),
                 !.layersCreated = page.layersCreated + Len(NewFireLayers(zones, page.layersCreated))]

\* addFireZones(zones) of map.js: clearFireZones(), then every new layer is
\* added to the map and pushed to allFireLayers.  (Shape and colour of a
\* polygon come from its zone; map.fitBounds moves the view only.)
addFireZones(page, zones) ==
    [clearFireZones(page)
        EXCEPT !.fireZones = zones,
               !.allFireLayers = NewFireLayers(zones, page.layersCreated),
               !.onMap = (page.onMap \ Range(page.allFireLayers))
                             \cup Range(NewFireLayers(zones, page.layersCreated)),
               !.layersCreated = page.layersCreated + Len(NewFireLayers(zones, page.layersCreated))]

\* updateVisibleZones(maxStep) that only takes polygons off the map.
updateVisibleZonesOnlyRemoves(page, maxStep) ==
    [page EXCEPT !.onMap =
        {layer \in page.onMap :
            ~(layer \in Range(page.allFireLayers) /\ layer.hasZoneStep
                /\ layer.zoneStep > maxStep)}]

\* updateVisibleZones(maxStep) of map.js: of the layers of allFireLayers
\* that have a zoneStep, those up to maxStep are put on the map and the
\* others taken off it.
updateVisibleZones(page, maxStep) ==
    [page EXCEPT !.onMap =
        {layer \in page.onMap :
            ~(layer \in Range(page.allFireLayers) /\ layer.hasZoneStep
                /\ layer.zoneStep > maxStep)}
        \cup {layer \in Range(page.allFireLayers) :
                layer.hasZoneStep /\ layer.zoneStep <= maxStep}]

\* showLoading(show) of fire-simulation.js.
showLoading(page, show) == [page EXCEPT !.loading = show]

\* The body of the POST of lines 769-773.
PostedBody(page) ==
    [sent |-> TRUE,
     lat |-> getFireOrigin(page).lat,
     lon |-> getFireOrigin(page).lon,
     windSpeed |-> page.windSpeed,
     buildingDensity |-> page.buildingDensity,
     timeSteps |-> page.timeSteps]

\* runSimulation() of fire-simulation.js up to the await of the fetch:
\* without an origin the alert and nothing else; with one, the loading
\* overlay, then the POST of the origin and the sliders' values.
runSimulation(page) ==
    IF ~getFireOrigin(page).set
    THEN [page EXCEPT !.alert = "Click map to set fire origin"]
    ELSE [showLoading(page, TRUE)
            EXCEPT !.posted = PostedBody(page),
                   !.requests = page.requests + 1,
                   !.pending = Append(page.pending,
                                      [id |-> page.requests + 1, body |-> PostedBody(page)])]

\* What the page reads of the data of a successful answer to a request:
\* simulate's zones 1..timeSteps, its parameters and its summary, with the
\* time_interval simulate_fire leaves at its default.
ResponseData(body) ==
    [displayed |-> TRUE,
     zones |-> [k \in 1..body.timeSteps |->
                    [step |-> k, time |-> k * DefaultTimeInterval]],
     parameters |-> [timeSteps |-> body.timeSteps, timeInterval |-> DefaultTimeInterval],
     summary |-> [totalTime |-> body.timeSteps * DefaultTimeInterval]]

\* displaySimulationResults(data) of fire-simulation.js: the result texts,
\* the slider section shown, the slider at its new maximum
\* parameters.timeSteps, and the oninput handler installed.
displaySimulationResults(page, data) ==
    [page EXCEPT !.resultTotalTime = Text("minutes", data.summary.totalTime),
                 !.timeSlider = [shown |-> TRUE,
                                 max |-> data.parameters.timeSteps,
                                 value |-> data.parameters.timeSteps,
                                 oninput |-> TRUE,
                                 timeInterval |-> data.parameters.timeInterval],
                 !.timeDisplay = Text("minutes", data.summary.totalTime)]

\* visualizeFireSpread(data).
visualizeFireSpread(page, data) == addFireZones(page, data.zones)

\* timeSlider.oninput with the slider at value: the time text and
\* updateVisibleZones(step).
timeSliderOninput(page, value) ==
    [updateVisibleZones(page, value)
        EXCEPT !.timeDisplay = IF value = 0 THEN Text("Origin", 0)
                               ELSE Text("minutes", value * page.timeSlider.timeInterval)]

\* What a fetch can come to: an answer with success true, an answer whose
\* status is not OK, an answer with success false, or a rejected promise.
FetchOutcomes == {"success", "not ok", "success false", "throws"}

\* The requests of a page without its i-th.
WithoutRequest(page, i) ==
    [page EXCEPT !.pending = SubSeq(page.pending, 1, i - 1)
                                 \o SubSeq(page.pending, i + 1, Len(page.pending))]

\* runSimulation() from the await on that leaves the overlay up when the
\* request failed.
runSimulationResumesNoFinally(page, i, outcome) ==
    IF outcome = "success"
    THEN showLoading(
             visualizeFireSpread(
                 displaySimulationResults(
                     [WithoutRequest(page, i)
                         EXCEPT !.currentSimulation = ResponseData(page.pending[i].body)],
                     ResponseData(page.pending[i].body)),
                 ResponseData(page.pending[i].body)),
             FALSE)
    ELSE [WithoutRequest(page, i)
            EXCEPT !.alert = "Failed to run simulation. Make sure backend is running."]

\* runSimulation() from the await on, for the i-th request in flight: on
\* success currentSimulation, displaySimulationResults and
\* visualizeFireSpread; otherwise the throw, caught with the alert (which
\* holds the page until it is dismissed); finally showLoading(false).
runSimulationResumes(page, i, outcome) ==
    IF outcome = "success"
    THEN showLoading(
             visualizeFireSpread(
                 displaySimulationResults(
                     [WithoutRequest(page, i)
                         EXCEPT !.currentSimulation = ResponseData(page.pending[i].body)],
                     ResponseData(page.pending[i].body)),
                 ResponseData(page.pending[i].body)),
             FALSE)
    ELSE showLoading(
             [WithoutRequest(page, i)
                 EXCEPT !.alert = "Failed to run simulation. Make sure backend is running."],
             FALSE)

\* clearSimulation() of fire-simulation.js.
clearSimulation(page) ==
    [clearFireGraphics([page EXCEPT !.currentSimulation = NoSimulation])
        EXCEPT !.resultTotalTime = Text("--", 0),
               !.timeSlider.shown = FALSE]

\* The simulate requests a page sends.
MaxRequests == 2

\* The places the user clicks on the map.
ClickPoints == Origins \cup {[lat |-> 0, lon |-> 0]}

\* A click on the map: map.on('click', ...) calls setFireOrigin.  The
\* loading overlay lies over the map while it is shown.
MapClick(lat, lon) ==
    /\ ~browser.loading
    /\ browser' = setFireOrigin(browser, lat, lon)
    /\ UNCHANGED <<fire_model, calls, random_state, http, weather_api, method_call>>

\* A click on the Run Simulation button, which does nothing while the
\* button is disabled.
RunSimulationClick ==
    /\ ~browser.runDisabled
    /\ browser.requests < MaxRequests
    /\ browser' = runSimulation(browser)
    /\ UNCHANGED <<fire_model, calls, random_state, http, weather_api, method_call>>

\* A click on the Clear button.
ClearSimulationClick ==
    /\ browser' = clearSimulation(browser)
    /\ UNCHANGED <<fire_model, calls, random_state, http, weather_api, method_call>>

\* The server started without a key, with the placeholder, or with a key.
InitFrontend ==
    /\ fire_model = UrbanFireModel
    /\ calls = [c \in CallIds |-> IdleFrame]
    /\ random_state = 0
    /\ http = [c \in CallIds |-> NoRequest]
    /\ weather_api \in {WeatherAPI(k) : k \in {"", "YOUR_OPENWEATHER_KEY_HERE", "key"}}
    /\ browser = Page
    /\ method_call = NoMethodCall

\* The user at the page and the weather requests of the page.
NextFrontend ==
    \/ \E p \in ClickPoints : MapClick(p.lat, p.lon)
    \/ RunSimulationClick
    \/ ClearSimulationClick
    \/ \E net \in NetworkOutcomes : GetWeather(net)

SpecFrontend == InitFrontend /\ [][NextFrontend]_vars

\* The points a script hands to setFireOrigin.
ScriptPoints == {[lat |-> 34052200, lon |-> -118243700]}

\* A script calls window.mapModule.setFireOrigin with coordinates that are
\* not numbers.
SetFireOriginCall(lat, lon) ==
    /\ browser.fireOrigin # Point(lat, lon)
    /\ browser' = setFireOriginTypeError(browser, lat, lon)
    /\ UNCHANGED <<fire_model, calls, random_state, http, weather_api, method_call>>

\* The user moves the Simulation Steps slider (5 to 20).
TimeStepsInput(n) ==
    /\ browser.timeSteps # n
    /\ browser' = [browser EXCEPT !.timeSteps = n]
    /\ UNCHANGED <<fire_model, calls, random_state, http, weather_api, method_call>>

\* The user moves the time slider, which is there once its section is
\* shown: the input event runs the oninput handler.
TimeSliderInput(value) ==
    /\ browser.timeSlider.shown
    /\ value \in 0..browser.timeSlider.max
    /\ value # browser.timeSlider.value
    /\ browser' = IF browser.timeSlider.oninput
                  THEN [timeSliderOninput(browser, value) EXCEPT !.timeSlider.value = value]
                  ELSE [browser EXCEPT !.timeSlider.value = value]
    /\ UNCHANGED <<fire_model, calls, random_state, http, weather_api, method_call>>

\* The fetch of the i-th request in flight settles and runSimulation
\* resumes after its await.
FetchSettles(i, outcome) ==
    /\ i \in 1..Len(browser.pending)
    /\ browser' = runSimulationResumes(browser, i, outcome)
    /\ UNCHANGED <<fire_model, calls, random_state, http, weather_api, method_call>>

\* The user at the page, a script setting the origin, and the answers to
\* the simulate requests.
NextPage ==
    \/ \E p \in ClickPoints : MapClick(p.lat, p.lon)
    \/ \E p \in ScriptPoints : SetFireOriginCall(p.lat, p.lon)
    \/ \E n \in {5, 10} : TimeStepsInput(n)
    \/ RunSimulationClick
    \/ ClearSimulationClick
    \/ \E value \in 0..20 : TimeSliderInput(value)
    \/ \E i \in 1..MaxRequests, outcome \in FetchOutcomes : FetchSettles(i, outcome)

SpecPage == Init /\ [][NextPage]_vars

\* The user who clicks the map, runs and clears, with the sliders left
\* where they are.
NextPageLive ==
    \/ \E p \in ClickPoints : MapClick(p.lat, p.lon)
    \/ \E p \in ScriptPoints : SetFireOriginCall(p.lat, p.lon)
    \/ RunSimulationClick
    \/ ClearSimulationClick
    \/ \E i \in 1..MaxRequests, outcome \in FetchOutcomes : FetchSettles(i, outcome)

\* Every fetch settles: the promise is resolved with the answer or rejected
\* with the network's error, and the event loop then resumes runSimulation.
SpecPageLive ==
    /\ Init
    /\ [][NextPageLive]_vars
    /\ WF_vars(\E i \in 1..MaxRequests, outcome \in FetchOutcomes : FetchSettles(i, outcome))


(***************************************************************************)
(* The methods of fire_model called on their own.                          *)
(***************************************************************************)
\* The largest base wind of the run of small ones, in hundredths of km/h.
MaxBaseWind == 200

\* Base winds: every value up to MaxBaseWind, the winds of the simulations
\* (the default 15 km/h among them) and a strong wind.
BaseWinds == (0..MaxBaseWind) \cup WindSpeeds \cup {50 * 100}

\* Latitudes: the poles, the middle latitudes, the equator, the default
\* location, and a point 0.0097 degrees from the north pole.
MethodLats == {-90000000, -45000000, 0, 34052200, 45000000, 89990300, 90000000}

\* Longitudes: the date line from both sides, the default location,
\* Greenwich.
MethodLons == {-180000000, -118243700, 0, 180000000}

\* Bearings: north, one off the axes, south, the last of simulate's 16.
MethodAngles == {0, 67500000, 180000000, 337500000}

\* Distances in thousandths of a metre: none, and 100 m.
MethodDistances == {0, 100 * 1000}

\* fire_model.calculate_urban_wind(base_wind_speed).
CallUrbanWind(base_wind_speed) ==
    /\ method_call = NoMethodCall
    /\ method_call' =
           [NoMethodCall EXCEPT
               !.fn = "calculate_urban_wind",
               !.base = base_wind_speed,
               !.wind = calculate_urban_wind(fire_model, base_wind_speed,
                                             DefaultBuildingHeight, DefaultStreetWidth)]
    /\ UNCHANGED <<fire_model, calls, random_state, http, weather_api, browser>>

\* fire_model.calculate_spread_direction(origin_lat, origin_lon, angle_deg,
\* distance_m).
CallSpreadDirection(origin_lat, origin_lon, angle_deg, distance_m) ==
    /\ method_call = NoMethodCall
    /\ IF calculate_spread_direction_raises(fire_model, origin_lat, origin_lon, angle_deg,
                                            distance_m)
       THEN method_call' =
                [NoMethodCall EXCEPT
                    !.fn = "calculate_spread_direction", !.lat = origin_lat,
                    !.lon = origin_lon, !.angle = angle_deg, !.distance = distance_m,
                    !.raised = TRUE]
       ELSE method_call' =
                [NoMethodCall EXCEPT
                    !.fn = "calculate_spread_direction", !.lat = origin_lat,
                    !.lon = origin_lon, !.angle = angle_deg, !.distance = distance_m,
                    !.point = [set |-> TRUE,
                               lat |-> calculate_spread_direction(
                                           fire_model, origin_lat, origin_lon, angle_deg,
                                           distance_m).lat,
                               lon |-> calculate_spread_direction(
                                           fire_model, origin_lat, origin_lon, angle_deg,
                                           distance_m).lon]]
    /\ UNCHANGED <<fire_model, calls, random_state, http, weather_api, browser>>

\* The largest building density of the direct calls, in percent.
MaxDensity == 120

\* Wind speeds in hundredths of km/h: calm, the default and its urban
\* wind, and a negative one.
MethodWinds == {0, 1500, 1940, -500}

\* fire_model.calculate_spread_rate(wind_speed, building_density).
CallSpreadRate(wind_speed, building_density) ==
    /\ method_call = NoMethodCall
    /\ IF calculate_spread_rate_raises(fire_model, wind_speed, building_density)
       THEN method_call' =
                [NoMethodCall EXCEPT
                    !.fn = "calculate_spread_rate", !.wind_speed = wind_speed,
                    !.building_density = building_density, !.raised = TRUE]
       ELSE method_call' =
                [NoMethodCall EXCEPT
                    !.fn = "calculate_spread_rate", !.wind_speed = wind_speed,
                    !.building_density = building_density,
                    !.spread_rate = calculate_spread_rate(fire_model, wind_speed,
                                                          building_density)]
    /\ UNCHANGED <<fire_model, calls, random_state, http, weather_api, browser>>

\* The caller has the value (or the exception).
MethodCallEnds ==
    /\ method_call # NoMethodCall
    /\ method_call' = NoMethodCall
    /\ UNCHANGED <<fire_model, calls, random_state, http, weather_api, browser>>

\* One call at a time, any arguments.
NextMethods ==
    \/ \E base \in BaseWinds : CallUrbanWind(base)
    \/ \E lat \in MethodLats, lon \in MethodLons, angle \in MethodAngles,
          distance \in MethodDistances :
          CallSpreadDirection(lat, lon, angle, distance)
    \/ \E wind \in MethodWinds, density \in 0..MaxDensity : CallSpreadRate(wind, density)
    \/ MethodCallEnds

SpecMethods == Init /\ [][NextMethods]_vars


(***************************************************************************)
(* Properties of the value simulate returns.                               *)
(***************************************************************************)
Returned(c) == calls[c].pc = "done"

ResultOf(c) == calls[c].result[1]

\* C1: a simulate call with time_steps >= 1 returns exactly time_steps zones,
\* and the zone at index i (counted from 0) has step i + 1.
C1_ZonesCountAndSteps ==
    \A c \in CallIds :
        (Returned(c) /\ calls[c].args.time_steps >= 1) =>
            /\ Len(ResultOf(c).zones) = calls[c].args.time_steps
            /\ \A i \in 0..(Len(ResultOf(c).zones) - 1) :
                   ResultOf(c).zones[i + 1].step = i + 1

\* A call with the largest step count has returned its zones.
C1_Witness ==
    \E c \in CallIds :
        /\ Returned(c)
        /\ calls[c].args.time_steps = MaxSteps
        /\ Len(ResultOf(c).zones) = MaxSteps
        /\ ResultOf(c).zones[MaxSteps].step = MaxSteps

\* C2: every returned zone has exactly 16 perimeter points, and point i
\* (from 0) is calculate_spread_direction from the origin at bearing
\* i * 22.5 degrees over the unrounded distance of the zone's step, so the
\* points are in ascending bearing order starting at north.
C2_PerimeterPoints ==
    \A c \in CallIds :
        Returned(c) =>
            \A k \in 1..Len(ResultOf(c).zones) :
                /\ Len(ResultOf(c).zones[k].perimeter) = 16
                /\ \A i \in 0..15 :
                       ResultOf(c).zones[k].perimeter[i + 1] =
                           calculate_spread_direction(
                               fire_model,
                               ResultOf(c).origin.lat, ResultOf(c).origin.lon,
                               22500000 * i,
                               ResultOf(c).parameters.spreadRate
                                   * ResultOf(c).parameters.timeInterval
                                   * ResultOf(c).zones[k].step)

\* A returned zone of a fire that moves: 16 different points, the first due
\* north of the origin's latitude and the fifth east of its longitude.
C2_Witness ==
    \E c \in CallIds :
        /\ Returned(c)
        /\ \E k \in 1..Len(ResultOf(c).zones) :
               /\ Cardinality({ResultOf(c).zones[k].perimeter[i] : i \in 1..16}) = 16
               /\ ResultOf(c).zones[k].perimeter[1].lat > ResultOf(c).origin.lat
               /\ ResultOf(c).zones[k].perimeter[5].lon > ResultOf(c).origin.lon

\* C4: the distance of the zone at index k (from 0) is
\* round(spread_rate * time_interval * (k + 1), 2) with the reported
\* parameters.spreadRate, so it is linear in the step up to the rounding:
\* it differs from (k + 1) * spread_rate * time_interval by at most 0.005.
C4_DistanceLinear ==
    \A c \in CallIds :
        Returned(c) =>
            \A k \in 0..(Len(ResultOf(c).zones) - 1) :
                /\ ResultOf(c).zones[k + 1].distance =
                       RoundHalfEven(ResultOf(c).parameters.spreadRate
                                        * ResultOf(c).parameters.timeInterval * (k + 1), 10)
                /\ Abs(10 * ResultOf(c).zones[k + 1].distance
                          - (k + 1) * ResultOf(c).parameters.spreadRate
                                    * ResultOf(c).parameters.timeInterval) <= 5

\* A returned fire that moves, with five minutes a step and a last zone
\* further out than the first.
C4_Witness ==
    \E c \in CallIds :
        /\ Returned(c)
        /\ ResultOf(c).parameters.timeInterval = 5
        /\ ResultOf(c).parameters.spreadRate > 0
        /\ Len(ResultOf(c).zones) >= 2
        /\ ResultOf(c).zones[Len(ResultOf(c).zones)].distance > ResultOf(c).zones[1].distance

\* C5: for time_steps >= 1, summary.maxDistance is the last zone's distance
\* and summary.totalTime is time_steps * time_interval, the last zone's time.
C5_SummaryMatchesLastZone ==
    \A c \in CallIds :
        (Returned(c) /\ calls[c].args.time_steps >= 1) =>
            /\ ResultOf(c).summary.maxDistance =
                   ResultOf(c).zones[Len(ResultOf(c).zones)].distance
            /\ ResultOf(c).summary.totalTime =
                   calls[c].args.time_steps * calls[c].args.time_interval
            /\ ResultOf(c).summary.totalTime =
                   ResultOf(c).zones[Len(ResultOf(c).zones)].time

\* A returned fire of several steps that has moved.
C5_Witness ==
    \E c \in CallIds :
        /\ Returned(c)
        /\ calls[c].args.time_steps >= 2
        /\ ResultOf(c).summary.maxDistance > 0
        /\ ResultOf(c).summary.totalTime = ResultOf(c).zones[Len(ResultOf(c).zones)].time

\* pi * d^2 rounded to two decimals, in hundredths, for d in hundredths.
AreaOfReported(d) ==
    BigRound(BigMul(PiBig, BigMul(BigOfNat(Abs(d)), BigOfNat(Abs(d)))), 4, 10)

C9_NoResultWithoutSteps ==
    \A c \in CallIds :
        calls[c].args.time_steps <= 0 => ~Returned(c)

\* C9: simulate with time_steps zero or negative raises no error of its own:
\* the loop body, and the division by time_steps in it, never runs, and the
\* call returns a result with an empty zones list, totalTime
\* time_steps * time_interval and maxDistance
\* round(spread_rate * time_interval * time_steps, 2).  The only error such a
\* call ends with is the TypeError of a negative wind speed.
C9_EmptyResultWithoutSteps ==
    \A c \in CallIds :
        calls[c].args.time_steps <= 0 =>
            /\ calls[c].fire_zones = <<>>
            /\ calls[c].pc = "raised" =>
                   (calls[c].error = "TypeError" /\ calls[c].args.wind_speed < 0)
            /\ Returned(c) =>
                   /\ ResultOf(c).zones = <<>>
                   /\ ResultOf(c).summary.totalTime =
                          calls[c].args.time_steps * calls[c].args.time_interval
                   /\ ResultOf(c).summary.maxDistance =
                          RoundHalfEven(ResultOf(c).parameters.spreadRate
                                           * calls[c].args.time_interval
                                           * calls[c].args.time_steps, 10)

\* A call with no steps has returned its result, without zones.
C9_Witness ==
    \E c \in CallIds :
        /\ Returned(c)
        /\ calls[c].args.time_steps = 0
        /\ ResultOf(c).zones = <<>>
        /\ ResultOf(c).summary.totalTime = 0

\* The case of a fully built-up area: a result for building_density 100, a
\* wind speed that is not negative, at least one step and a positive interval.
FullyBuilt(c) ==
    /\ Returned(c)
    /\ calls[c].args.building_density = 100
    /\ calls[c].args.wind_speed >= 0
    /\ calls[c].args.time_steps >= 1
    /\ calls[c].args.time_interval > 0

\* What the conversion of one unit of the radians adds to a coordinate.
Tolerance == Degrees(1)

\* With building_density 100 the spread rate is 0.0, every distance is 0 and
\* every perimeter point is the origin itself.
C10_FullyBuiltStaysAtOriginExactly ==
    \A c \in CallIds :
        FullyBuilt(c) =>
            /\ ResultOf(c).parameters.spreadRate = 0
            /\ \A k \in 1..Len(ResultOf(c).zones) :
                   /\ ResultOf(c).zones[k].distance = 0
                   /\ \A i \in 1..16 :
                          ResultOf(c).zones[k].perimeter[i] = ResultOf(c).origin

\* C10: with building_density 100 (wind speed not negative, at least one
\* step, a positive interval) the spread rate is 0.0, every zone's distance is
\* 0, and the 16 perimeter points of every zone are one and the same point,
\* which is the origin up to the rounding of its conversion to radians and
\* back.
C10_FullyBuiltStaysAtOrigin ==
    \A c \in CallIds :
        FullyBuilt(c) =>
            /\ ResultOf(c).parameters.spreadRate = 0
            /\ \A k \in 1..Len(ResultOf(c).zones) :
                   /\ ResultOf(c).zones[k].distance = 0
                   /\ Len(ResultOf(c).zones[k].perimeter) = 16
                   /\ \A i \in 1..16 :
                          /\ ResultOf(c).zones[k].perimeter[i] = ResultOf(c).zones[k].perimeter[1]
                          /\ Abs(ResultOf(c).zones[k].perimeter[i].lat - ResultOf(c).origin.lat)
                                 <= Tolerance
                          /\ Abs(ResultOf(c).zones[k].perimeter[i].lon - ResultOf(c).origin.lon)
                                 <= Tolerance

\* A result for a fully built-up area whose perimeter points are not the
\* origin to the last digit.
C10_Witness ==
    \E c \in CallIds :
        /\ FullyBuilt(c)
        /\ ResultOf(c).parameters.spreadRate = 0
        /\ ResultOf(c).zones[1].distance = 0
        /\ ResultOf(c).zones[1].perimeter[1] # ResultOf(c).origin

\* The intensities of a result's zones, in thousandths.
Intensities(c) == [k \in 1..Len(ResultOf(c).zones) |-> ResultOf(c).zones[k].intensity]

NeverIncreasing(v) == \A k \in 1..(Len(v) - 1) : v[k] >= v[k + 1]

StrictlyDecreasing(v) == \A k \in 1..(Len(v) - 1) : v[k] > v[k + 1]

\* The reported intensity strictly decreases from below 1.0 to exactly 0.5
\* for every time_steps >= 1.
C3_IntensityStrictlyDecreasing ==
    \A c \in CallIds :
        (Returned(c) /\ calls[c].args.time_steps >= 1) =>
            /\ StrictlyDecreasing(Intensities(c))
            /\ Intensities(c)[1] < 1000
            /\ Intensities(c)[Len(Intensities(c))] = 500

\* C3: for every time_steps >= 1 the reported intensity never increases with
\* the step, is at most 1.0 and is exactly 0.5 in the last zone; it is
\* strictly decreasing for time_steps up to 500, and the first zone's
\* intensity is strictly below 1.0 for time_steps up to 999.
C3_IntensityRounded ==
    \A c \in CallIds :
        (Returned(c) /\ calls[c].args.time_steps >= 1) =>
            /\ NeverIncreasing(Intensities(c))
            /\ Intensities(c)[1] <= 1000
            /\ Intensities(c)[Len(Intensities(c))] = 500
            /\ calls[c].args.time_steps <= StrictStepsLimit =>
                   StrictlyDecreasing(Intensities(c))
            /\ calls[c].args.time_steps < 2 * StrictStepsLimit =>
                   Intensities(c)[1] < 1000

\* A result of so many steps that the first intensity is reported as 1.0 and
\* two steps next to each other have the same intensity.
C3_Witness ==
    \E c \in CallIds :
        /\ Returned(c)
        /\ calls[c].args.time_steps > StrictStepsLimit
        /\ Intensities(c)[1] = 1000
        /\ ~StrictlyDecreasing(Intensities(c))
        /\ Intensities(c)[Len(Intensities(c))] = 500

(***************************************************************************)
(* Properties of calls on the shared instance.                             *)
(***************************************************************************)
Finished(c) == calls[c].pc \in {"done", "raised"}

\* C7: simulate is deterministic: two calls with the same arguments end the
\* same way and return the same result, whatever calls of simulate or of the
\* weather service ran before or in between.
C7_Deterministic ==
    \A c, d \in CallIds :
        (Finished(c) /\ Finished(d) /\ calls[c].args = calls[d].args) =>
            /\ calls[c].pc = calls[d].pc
            /\ calls[c].result = calls[d].result
            /\ calls[c].error = calls[d].error

\* Two calls with the same arguments have returned their zones, and the
\* weather service has drawn from the random generator meanwhile.
C7_Witness ==
    \E c, d \in CallIds :
        /\ c # d
        /\ Returned(c) /\ Returned(d)
        /\ calls[c].args = calls[d].args
        /\ Len(ResultOf(c).zones) >= 2
        /\ ResultOf(c).parameters.spreadRate > 0
        /\ random_state # 0

\* For each of the concurrent callers' arguments, what simulate returns when
\* it runs alone on a fresh instance.
AloneOutcomes == {<<a, simulate(UrbanFireModel, a)>> : a \in ConcurrentArguments}

OutcomeAlone(a) == (CHOOSE p \in AloneOutcomes : p[1] = a)[2]

\* A finished call ended as simulate run alone on a fresh instance ends.
AsIfAlone(c) ==
    /\ calls[c].result = OutcomeAlone(calls[c].args)
    /\ calls[c].pc = (IF OutcomeAlone(calls[c].args) = <<>> THEN "raised" ELSE "done")

\* The instance has the attributes its constructor gave it, and every
\* finished call ended as if it had run alone.
NoInterference ==
    /\ fire_model = UrbanFireModel
    /\ \A c \in CallIds : Finished(c) => AsIfAlone(c)

\* A step of a simulate call changes its own frame only: no other frame, no
\* attribute of the instance, not the random generator.
OwnFrameOnly ==
    \A c \in CallIds :
        calls'[c] # calls[c] =>
            /\ \A d \in CallIds \ {c} : calls'[d] = calls[d]
            /\ fire_model' = fire_model
            /\ random_state' = random_state

\* C8: simulate calls running at once on the shared instance do not
\* interfere: under every interleaving each call ends as if it had run
\* alone, and no call changes the instance's constants or any other state
\* that outlives the call.
C8_ConcurrentCallsIndependent == []NoInterference /\ [][OwnFrameOnly]_vars

\* Two calls with different arguments are in progress at once, each in its
\* loop with a zone appended.
C8_Witness ==
    \E c, d \in CallIds :
        /\ c # d
        /\ calls[c].pc = "loop" /\ calls[d].pc = "loop"
        /\ calls[c].args # calls[d].args
        /\ Len(calls[c].fire_zones) = 1
        /\ Len(calls[d].fire_zones) = 1

(***************************************************************************)
(* Boundaries and parameters of simulate.                                  *)
(***************************************************************************)

\* C11: with time_steps = 1 simulate returns exactly one zone, with step 1,
\* intensity exactly 0.5 and distance spread_rate * time_interval rounded to
\* two decimals.
C11_SingleStep ==
    \A c \in CallIds :
        (Returned(c) /\ calls[c].args.time_steps = 1) =>
            /\ Len(ResultOf(c).zones) = 1
            /\ ResultOf(c).zones[1].step = 1
            /\ ResultOf(c).zones[1].intensity = 500
            /\ ResultOf(c).zones[1].distance =
                   RoundHalfEven(ResultOf(c).parameters.spreadRate
                                    * calls[c].args.time_interval, 10)

\* A call with one step has returned a zone that has moved.
C11_Witness ==
    \E c \in CallIds :
        /\ Returned(c)
        /\ calls[c].args.time_steps = 1
        /\ Len(ResultOf(c).zones) = 1
        /\ ResultOf(c).zones[1].distance > 0

\* Every reported intensity is strictly greater than 0.5 and at most 1.0.
C18_IntensityAboveHalf ==
    \A c \in CallIds :
        (Returned(c) /\ calls[c].args.time_steps >= 1) =>
            \A k \in 1..Len(Intensities(c)) :
                Intensities(c)[k] > 500 /\ Intensities(c)[k] <= 1000

\* C18: every zone's reported intensity lies in the closed interval
\* [0.5, 1.0], for every step of every simulation with time_steps >= 1; the
\* last zone's intensity is 0.5 itself, and for time_steps up to 999 every
\* zone before the last is strictly above 0.5.
C18_IntensityInClosedRange ==
    \A c \in CallIds :
        (Returned(c) /\ calls[c].args.time_steps >= 1) =>
            /\ \A k \in 1..Len(Intensities(c)) :
                   Intensities(c)[k] >= 500 /\ Intensities(c)[k] <= 1000
            /\ Intensities(c)[Len(Intensities(c))] = 500
            /\ calls[c].args.time_steps < 2 * StrictStepsLimit =>
                   \A k \in 1..(Len(Intensities(c)) - 1) : Intensities(c)[k] > 500

\* A result of several steps whose intensities reach both ends of the
\* interval: 1.0 in the first zone and 0.5 in the last.
C18_Witness ==
    \E c \in CallIds :
        /\ Returned(c)
        /\ Len(Intensities(c)) >= 2
        /\ Intensities(c)[1] = 1000
        /\ Intensities(c)[Len(Intensities(c))] = 500

\* C19: simulate computes the urban wind once and the spread rate once, the
\* spread rate from the rounded urban wind: parameters.urbanWind is
\* calculate_urban_wind(wind_speed), parameters.spreadRate is
\* calculate_spread_rate(parameters.urbanWind, building_density), every step
\* uses this spread rate, and baseWind, buildingDensity, timeSteps and
\* timeInterval are the inputs.
C19_ParametersAndRate ==
    \A c \in CallIds :
        /\ calls[c].pc \in {"loop", "done"} =>
               /\ calls[c].urban_wind =
                      calculate_urban_wind(fire_model, calls[c].args.wind_speed, 20, 15)
               /\ calls[c].spread_rate =
                      calculate_spread_rate(fire_model, calls[c].urban_wind,
                                            calls[c].args.building_density)
               /\ \A k \in 1..Len(calls[c].fire_zones) :
                      calls[c].fire_zones[k].distance =
                          RoundHalfEven(calls[c].spread_rate * calls[c].args.time_interval * k, 10)
        /\ Returned(c) =>
               /\ ResultOf(c).parameters.urbanWind =
                      calculate_urban_wind(fire_model, calls[c].args.wind_speed, 20, 15)
               /\ ResultOf(c).parameters.spreadRate =
                      calculate_spread_rate(fire_model, ResultOf(c).parameters.urbanWind,
                                            calls[c].args.building_density)
               /\ ResultOf(c).parameters.spreadRate = calls[c].spread_rate
               /\ ResultOf(c).parameters.baseWind = calls[c].args.wind_speed
               /\ ResultOf(c).parameters.buildingDensity = calls[c].args.building_density
               /\ ResultOf(c).parameters.timeSteps = calls[c].args.time_steps
               /\ ResultOf(c).parameters.timeInterval = calls[c].args.time_interval

\* A result for a wind that the street canyon changes: the urban wind is not
\* the base wind, and the spread rate is that of the urban wind and not of
\* the base wind.
C19_Witness ==
    \E c \in CallIds :
        /\ Returned(c)
        /\ Len(ResultOf(c).zones) >= 2
        /\ ResultOf(c).parameters.urbanWind # ResultOf(c).parameters.baseWind
        /\ ResultOf(c).parameters.spreadRate #
               calculate_spread_rate(fire_model, ResultOf(c).parameters.baseWind,
                                     calls[c].args.building_density)

(***************************************************************************)
(* The HTTP boundary.                                                      *)
(***************************************************************************)
Responded(c) == http[c].pc = "responded"

C13_FailureAnswered ==
    \A c \in CallIds :
        /\ http[c].invoked <= 1
        /\ Responded(c) /\ calls[c].pc = "raised" =>
               /\ http[c].response.status = 500
               /\ ~http[c].response.success
               /\ http[c].response.error = calls[c].error
               /\ http[c].response.error # ""
               /\ http[c].response.data = <<>>
        /\ Responded(c) /\ calls[c].pc = "done" => http[c].response.status = 200

\* The step a request takes from a simulate that has raised is the failure
\* response, with no further call of simulate.
C13_FailureCaught ==
    \A c \in CallIds :
        http[c].pc = "model" /\ calls[c].pc = "raised" /\ http'[c] # http[c] =>
            /\ http'[c].pc = "responded"
            /\ http'[c].response = Failure(500, calls[c].error)
            /\ http'[c].invoked = http[c].invoked

\* C13: simulate is called at most once per request; when it raises, the
\* handler catches the exception and the response is the failure (success
\* false, the error's message, status 500): no retry, and no step of the
\* request other than that response.
C13_ModelFailureIsOneFailureResponse == []C13_FailureAnswered /\ [][C13_FailureCaught]_vars

\* simulate raised (the wind was negative) and the request was answered.
C13_Witness ==
    /\ Responded(1)
    /\ calls[1].pc = "raised"
    /\ http[1].invoked = 1
    /\ http[1].response.status = 500

\* C14: simulate is called with the body's windSpeed, buildingDensity and
\* timeSteps where they are present and with 15, 40 and 10 where they are
\* missing, and always with time_interval 5; so a successful response has
\* parameters.timeInterval = 5 and zone times that are multiples of 5.
C14_DefaultsAndInterval ==
    \A c \in CallIds :
        LET r == http[c]
            a == calls[c].args
            given(v, default) == IF v.kind = "absent" THEN default ELSE v.value
        IN  /\ r.pc \in {"model", "responded"} /\ r.invoked = 1 =>
                /\ a.wind_speed = given(r.body.windSpeed, 1500)
                /\ a.building_density = given(r.body.buildingDensity, 40)
                /\ a.time_steps = given(r.body.timeSteps, 10)
                /\ a.time_interval = 5
            /\ Responded(c) /\ r.response.success =>
                LET data == r.response.data[1]
                IN  /\ data.parameters.timeInterval = 5
                    /\ data.parameters.baseWind = given(r.body.windSpeed, 1500)
                    /\ data.parameters.buildingDensity = given(r.body.buildingDensity, 40)
                    /\ data.parameters.timeSteps = given(r.body.timeSteps, 10)
                    /\ \A i \in 1..Len(data.zones) :
                           /\ data.zones[i].time % 5 = 0
                           /\ data.zones[i].time = 5 * i

\* A successful response to a request that gave windSpeed and left out
\* buildingDensity and timeSteps.
C14_Witness ==
    /\ Responded(1)
    /\ http[1].response.success
    /\ http[1].body.windSpeed = Number(1000)
    /\ http[1].body.buildingDensity = Absent
    /\ http[1].body.timeSteps = Absent
    /\ Len(http[1].response.data[1].zones) = 10

(***************************************************************************)
(* The weather source and the map page.                                    *)
(***************************************************************************)
\* C15: get_weather returns a record and raises nothing when the API key is
\* empty or the placeholder (mock data, and no network request is issued)
\* and when the network request fails with a connection error, a timeout
\* or an error HTTP status (mock data); an exception that does leave
\* get_weather is never one of these network errors.
C15_MockOnMissingKeyOrNetworkFailure ==
    LET last == weather_api.last
        key == weather_api.api_key
        NetworkErrors == {"ConnectionError", "Timeout", "HTTPError"}
        Mock == "Mock Data (Add API key for real data)"
    IN  last.outcome # "none" =>
            /\ key \in {"", "YOUR_OPENWEATHER_KEY_HERE"} =>
                   /\ last.outcome = "returned"
                   /\ last.source = Mock
                   /\ ~last.requested
            /\ key \notin {"", "YOUR_OPENWEATHER_KEY_HERE"} => last.requested
            /\ last.requested /\ last.net \in NetworkErrors =>
                   /\ last.outcome = "returned"
                   /\ last.source = Mock
            /\ last.outcome = "raised" => last.error \notin NetworkErrors
            /\ last.outcome = "returned" => last.error = ""

\* With a key, the request timed out and get_weather returned mock data.
C15_Witness ==
    /\ weather_api.api_key = "key"
    /\ weather_api.last.requested
    /\ weather_api.last.net = "Timeout"
    /\ weather_api.last.outcome = "returned"
    /\ weather_api.last.source = "Mock Data (Add API key for real data)"

\* C16: after a map click at (lat, lon) the stored fire origin is
\* {lat, lon} and the Run Simulation button is enabled, so that a following
\* runSimulation posts a simulate request with those coordinates and does
\* not stop at the alert.  The marker stands where the last click was, from
\* that click until the next Clear.
C16_OriginStoredAfterClick ==
    browser.fireOriginMarker.set =>
        /\ getFireOrigin(browser) = browser.fireOriginMarker
        /\ ~browser.runDisabled
        /\ runSimulation(browser).posted.sent
        /\ runSimulation(browser).posted.lat = browser.fireOriginMarker.lat
        /\ runSimulation(browser).posted.lon = browser.fireOriginMarker.lon
        /\ runSimulation(browser).alert = browser.alert

\* After a map click and a click on Run Simulation: the marker stands, the
\* button is enabled, the stored origin is null, the alert has been shown
\* and no request has been sent.
C16_Witness ==
    /\ browser.fireOriginMarker = Point(34052200, -118243700)
    /\ ~browser.runDisabled
    /\ ~getFireOrigin(browser).set
    /\ browser.alert = "Click map to set fire origin"
    /\ ~browser.posted.sent

(***************************************************************************)
(* The methods on their own.                                               *)
(***************************************************************************)
\* What math.asin makes of one unit of the sine next to a pole: the
\* arcsine of 1 - e is about sqrt(2e) away from pi/2, so the last half of
\* the digits of a latitude near +-90 does not come back.
PoleTolerance == Degrees(2 * Sqrt(1))

MiddleLatitude == 45 * 1000000

PoleLatitude == 90 * 1000000

ZeroDistanceCall ==
    /\ method_call.fn = "calculate_spread_direction"
    /\ method_call.distance = 0
    /\ Abs(method_call.lat) <= PoleLatitude

C20_UrbanWindDefaultCanyon ==
    method_call.fn = "calculate_urban_wind" =>
        /\ method_call.wind = RoundHalfEven(method_call.base * 194, 150)
        /\ method_call.base = 1500 => method_call.wind = 1940
        /\ method_call.base = 0 => method_call.wind = 0
        /\ method_call.base >= 0 => method_call.wind >= method_call.base

\* calculate_urban_wind(15) returned 19.4.
C20_Witness ==
    /\ method_call.fn = "calculate_urban_wind"
    /\ method_call.base = 1500
    /\ method_call.wind = 1940

\* C21: calculate_spread_rate with wind speed 0 does not fail and takes the
\* wind term for 0, the bracketed factor for 1 and not for 1.4: for every
\* building density d it returns (3000 * 0.8) / (0.035 * 2 * 780) *
\* (1 - d / 100) = 240 * (100 - d) / 546 rounded to 3 decimals.
C21_CalmWindSpreadRate ==
    method_call.fn = "calculate_spread_rate" /\ method_call.wind_speed = 0 =>
        /\ ~method_call.raised
        /\ method_call.spread_rate =
               RoundHalfEven(240000 * (100 - method_call.building_density), 546)
        /\ method_call.building_density < 100 =>
               method_call.spread_rate <
                   RoundHalfEven(14 * 24000 * (100 - method_call.building_density), 546)

\* calculate_spread_rate(0, 40) returned 26.374.
C21_Witness ==
    /\ method_call.fn = "calculate_spread_rate"
    /\ method_call.wind_speed = 0
    /\ method_call.building_density = 40
    /\ ~method_call.raised
    /\ method_call.spread_rate = 26374

(***************************************************************************)
(* Negative distances.                                                     *)
(***************************************************************************)
\* C22: simulate never returns a zone with a negative distance: a call
\* whose input makes the radial distance negative (building_density above
\* 100, or a negative time_interval) fails and returns no result.
C22_NoNegativeDistance ==
    \A c \in CallIds :
        Returned(c) =>
            /\ \A k \in 1..Len(ResultOf(c).zones) : ResultOf(c).zones[k].distance >= 0
            /\ calls[c].args.time_steps >= 1 =>
                   /\ calls[c].args.building_density <= 100
                   /\ calls[c].args.time_interval >= 0

\* simulate(34.0522, -118.2437, 15, 110, 3, 5) has returned three zones, at
\* the distances -31.15, -62.3 and -93.45.
C22_Witness ==
    /\ Returned(1)
    /\ calls[1].args = SimulateArgs([lat |-> 34052200, lon |-> -118243700], 1500, 110, 3, 5)
    /\ Len(ResultOf(1).zones) = 3
    /\ ResultOf(1).zones[1].distance = -3115
    /\ ResultOf(1).zones[2].distance = -6230
    /\ ResultOf(1).zones[3].distance = -9345
    /\ ResultOf(1).parameters.spreadRate = -6230

\* The polygons of the zones among the fire layers.
ZonePolygons == {layer \in Range(browser.allFireLayers) : layer.hasZoneStep}

\* runSimulation has just displayed the answer to one of its requests.
SimulationDisplayed ==
    \E i \in 1..MaxRequests : FetchSettles(i, "success")

\* C23: once a simulation is displayed and however the time slider is then
\* moved, a zone's polygon is on the map exactly when its step is at most
\* the slider's value, so that the slider at 0 shows no polygon, the slider
\* at timeSteps shows all of them, and moving down and up again brings
\* every polygon back; the step that displays a simulation leaves the slider
\* at timeSteps with the polygons of zones 1..timeSteps all on the map.
C23_PolygonsFollowSlider ==
    /\ [](\A layer \in ZonePolygons :
            layer \in browser.onMap <=> layer.zoneStep <= browser.timeSlider.value)
    /\ [](ZonePolygons # {} =>
            /\ browser.timeSlider.shown
            /\ browser.timeSlider.max = browser.currentSimulation.parameters.timeSteps
            /\ {layer.zoneStep : layer \in ZonePolygons} = 1..browser.timeSlider.max)
    /\ [][SimulationDisplayed =>
            /\ browser'.timeSlider.value = browser'.currentSimulation.parameters.timeSteps
            /\ {layer.zoneStep : layer \in ZonePolygons'} =
                   1..browser'.currentSimulation.parameters.timeSteps
            /\ ZonePolygons' \subseteq browser'.onMap]_vars

\* The slider moved to step 2 of a displayed simulation of five zones: the
\* polygons of zones 1 and 2 and the heat layer are on the map, those of
\* zones 3 to 5 are not.
C23_Witness ==
    /\ browser.currentSimulation.parameters.timeSteps = 5
    /\ browser.timeSlider = [shown |-> TRUE, max |-> 5, value |-> 2, oninput |-> TRUE,
                             timeInterval |-> 5]
    /\ browser.timeDisplay = Text("minutes", 10)
    /\ Len(browser.allFireLayers) = 6
    /\ {layer.zoneStep : layer \in ZonePolygons \cap browser.onMap} = {1, 2}
    /\ {layer.zoneStep : layer \in ZonePolygons \ browser.onMap} = {3, 4, 5}
    /\ browser.allFireLayers[6] \in browser.onMap

\* C24: whatever runs, slider moves, clears and map clicks have happened,
\* every fire layer on the map is in allFireLayers, and allFireLayers is
\* empty or holds exactly the layers made for the simulation displayed
\* last - one polygon per zone, then one heat layer - and none made before;
\* a clear and a map click leave it empty.
C24_OnlyLayersOfLastSimulation ==
    /\ [](browser.onMap \subseteq Range(browser.allFireLayers))
    /\ [](browser.allFireLayers # <<>> =>
            /\ browser.currentSimulation.displayed
            /\ browser.fireZones = browser.currentSimulation.zones
            /\ browser.allFireLayers =
                   NewFireLayers(browser.currentSimulation.zones,
                                 browser.layersCreated
                                     - Len(browser.currentSimulation.zones) - 1))
    /\ [][ClearSimulationClick \/ (\E p \in ClickPoints : MapClick(p.lat, p.lon)) =>
            browser'.allFireLayers = <<>> /\ browser'.onMap = {}]_vars

\* A simulation of five zones displayed after one of ten: the six layers on
\* the map are the twelfth to the seventeenth made.
C24_Witness ==
    /\ browser.layersCreated = 17
    /\ browser.currentSimulation.parameters.timeSteps = 5
    /\ Len(browser.allFireLayers) = 6
    /\ {layer.id : layer \in Range(browser.allFireLayers)} = 12..17
    /\ browser.onMap = Range(browser.allFireLayers)
    /\ ~browser.allFireLayers[6].hasZoneStep

\* A request of the page is in flight.
InFlight(r) == \E i \in 1..Len(browser.pending) : browser.pending[i].id = r

\* The fetch of a request has settled otherwise than with success true.
SimulationFailed ==
    \E i \in 1..MaxRequests, outcome \in FetchOutcomes \ {"success"} : FetchSettles(i, outcome)

\* C25: a runSimulation that finds an origin shows the loading overlay in
\* the step that sends its request; every request in flight is settled in
\* the end, with the overlay hidden by the call it belongs to, whatever the
\* outcome; and a call whose request did not succeed leaves
\* currentSimulation and the fire layers on the map as they were.
C25_LoadingShownThenHidden ==
    /\ [][RunSimulationClick /\ getFireOrigin(browser).set =>
            /\ browser'.loading
            /\ browser'.pending = Append(browser.pending,
                                         [id |-> browser.requests + 1,
                                          body |-> browser'.posted])]_vars
    /\ \A r \in 1..MaxRequests : InFlight(r) ~> (~InFlight(r) /\ ~browser.loading)
    /\ [][SimulationFailed =>
            /\ ~browser'.loading
            /\ browser'.currentSimulation = browser.currentSimulation
            /\ browser'.allFireLayers = browser.allFireLayers
            /\ browser'.onMap = browser.onMap]_vars

\* A second request has failed after the first was displayed: the overlay
\* is hidden, the failure alert is up, and the ten zones of the first
\* simulation are still on the map.
C25_Witness ==
    /\ browser.requests = 2
    /\ browser.pending = <<>>
    /\ ~browser.loading
    /\ browser.alert = "Failed to run simulation. Make sure backend is running."
    /\ browser.currentSimulation.displayed
    /\ Len(browser.allFireLayers) = 11
    /\ browser.onMap = Range(browser.allFireLayers)

=============================================================================
